---- MODULE Spec2Model ----
(***************************************************************************)
(* Model of the resume chunk editor: the structural LaTeX parser           *)
(* (lib/latex-parser.ts), the heuristic PDF-text segmenter and the LaTeX   *)
(* generator (lib/pdf-parser.ts, lib/latex-generator.ts) and the state of  *)
(* the ResumeBuilder component (components/ResumeEditor.tsx).              *)
(*                                                                         *)
(* Text is a sequence of lexemes ("tokens"): every regular expression of   *)
(* the source is evaluated over such a sequence, each lexeme being a unit  *)
(* no pattern of the source looks inside ("\\section", "{", "}", a word,   *)
(* one white-space character).  A title, a content and a rawLatex are      *)
(* therefore sequences of lexemes, the empty string being << >>.           *)
(***************************************************************************)
EXTENDS Integers, Sequences, FiniteSets, TLC

VARIABLES
    chunks,        \* useState<ResumeChunk[]>: the rendered chunk collection
    preamble,      \* useState(preamble): the rendered preamble text
    inflight,      \* the files whose handleFileUpload is suspended at its await
    nEdits,        \* number of drag / toggle / delete events so far
    last,          \* the event handled last (history, for the properties)
    parserRan,     \* whether the event handled last ran a parser (history)
    source,        \* round-trip pipeline: the source text given to the parser
    parsed,        \* round-trip pipeline: parseLatexFile(source)
    emitted,       \* round-trip pipeline: generateLatex(parsed)
    reparsed,      \* round-trip pipeline: parseLatexFile(emitted)
    stage          \* round-trip pipeline: position in the pipeline

editorVars == <<chunks, preamble, inflight, nEdits, last, parserRan>>
pipeVars   == <<source, parsed, emitted, reparsed, stage>>
vars       == <<chunks, preamble, inflight, nEdits, last, parserRan,
                source, parsed, emitted, reparsed, stage>>

----------------------------------------------------------------------------
(* Bounds of the model.                                                    *)

MaxPieces  == 3   \* the body of a pipeline source is made of at most so many pieces
MaxPending == 2   \* at most so many uploads are suspended at once
MaxEdits   == 3   \* at most so many drag / toggle / delete events
MaxChars   == 2   \* a body line given to the segmenter has at most so many characters
MaxLines   == 3   \* a text given to the segmenter has at most so many lines

----------------------------------------------------------------------------
(* Lexemes and elementary string functions.                                *)

BeginDoc  == "\\begin{document}"
EndDoc    == "\\end{document}"
Undefined == "undefined"          \* the value of an absent parentId

SetMin(S) == CHOOSE m \in S : \A k \in S : m <= k

\* 1-based index of the first lexeme of s at or after `from` that is in
\* toks; 0 when there is none.
IndexOfAny(s, from, toks) ==
    LET I == {i \in from..Len(s) : s[i] \in toks}
    IN  IF I = {} THEN 0 ELSE SetMin(I)

\* \s of the regular expressions, and the characters String.trim removes.
IsSpace(t) == t \in {" ", "\n"}

\* String.prototype.trim
trim(s) ==
    LET I == {i \in 1..Len(s) : ~IsSpace(s[i])}
    IN  IF I = {} THEN <<>>
        ELSE SubSeq(s, SetMin(I), CHOOSE m \in I : \A k \in I : k <= m)

\* The pattern \{([^}]+)\} (least = 1) or \{([^}]*)\} (least = 0) tried at
\* index q: the index of the closing brace, 0 when the pattern fails.
BraceGroupEnd(s, q, least) ==
    IF q > Len(s) \/ s[q] # "{" THEN 0
    ELSE LET r == IndexOfAny(s, q + 1, {"}"})
         IN  IF r # 0 /\ r - q - 1 >= least THEN r ELSE 0

\* The pattern cmd\*?\{([^}]+)\} tried at index p: [open, close], the
\* indices of the two braces, close = 0 when the pattern fails at p.
HeaderAt(s, p, cmd) ==
    IF p > Len(s) \/ s[p] # cmd THEN [open |-> 0, close |-> 0]
    ELSE LET q == IF p + 1 <= Len(s) /\ s[p + 1] = "*" THEN p + 2 ELSE p + 1
         IN  [open |-> q, close |-> BraceGroupEnd(s, q, 1)]

\* RegExp.exec of a header pattern from lastIndex: the least index at or
\* after lastIndex where cmd\*?\{([^}]+)\} matches, 0 when there is none.
NextHeader(s, lastIndex, cmd) ==
    LET I == {p \in lastIndex..Len(s) : HeaderAt(s, p, cmd).close # 0}
    IN  IF I = {} THEN 0 ELSE SetMin(I)

\* The lazy ([\s\S]*?)(?=stop1|stop2|$) from index `from`: the index just
\* past the span, that is the first stop lexeme or the end of the text.
LazyEnd(s, from, stops) ==
    LET e == IndexOfAny(s, from, stops)
    IN  IF e = 0 THEN Len(s) + 1 ELSE e

----------------------------------------------------------------------------
(* lib/latex-parser.ts                                                     *)

\* One chunk as a parser returns it (Omit<ResumeChunk, "order"|"isActive">).
\* tags and metadata are not carried: ResumeEditor copies neither, and
\* extractMetadata never sets `position`, so an item's title is
\* match[1] || "Item".
ParsedChunk(id, type, title, content, rawLatex, parentId) ==
    [id |-> id, type |-> type, title |-> title, content |-> content,
     rawLatex |-> rawLatex, parentId |-> parentId]

\* ItemChunk with the item numbered without its section: "item-<k>".
ItemChunkUnqualified(parentId, k, group1, match0) ==
    ParsedChunk("item-" \o ToString(k), "item",
                IF group1 = <<>> THEN <<"Item">> ELSE group1,
                match0, match0, parentId)

ItemChunk(parentId, k, group1, match0) ==
    ParsedChunk(parentId \o "-item-" \o ToString(k), "item",
                IF group1 = <<>> THEN <<"Item">> ELSE group1,
                match0, match0, parentId)

\* while ((match = pattern.exec(content)) !== null) for the first pattern,
\* /\\subsection\*?\{([^}]+)\}([\s\S]*?)(?=\\subsection|\\section|$)/g
RECURSIVE subsectionItems(_, _, _, _)
subsectionItems(content, lastIndex, parentId, itemIndex) ==
    LET p == NextHeader(content, lastIndex, "\\subsection")
    IN  IF p = 0 THEN <<>>
        ELSE LET h == HeaderAt(content, p, "\\subsection")
                 e == LazyEnd(content, h.close + 1, {"\\subsection", "\\section"})
             IN  <<ItemChunk(parentId, itemIndex,
                             SubSeq(content, h.open + 1, h.close - 1),
                             SubSeq(content, p, e - 1))>>
                 \o subsectionItems(content, e, parentId, itemIndex + 1)

\* The index of the first lexeme after the run \s+ that follows \item at p;
\* 0 when \item\s+ does not match at p.
ItemAt(s, p) ==
    IF p + 1 > Len(s) \/ s[p] # "\\item" \/ ~IsSpace(s[p + 1]) THEN 0
    ELSE LET I == {i \in (p + 1)..Len(s) : ~IsSpace(s[i])}
         IN  IF I = {} THEN Len(s) + 1 ELSE SetMin(I)

\* the second pattern,
\* /\\item\s+([\s\S]*?)(?=\\item|\\end\{itemize\}|\\end\{enumerate\}|$)/g
RECURSIVE listItems(_, _, _, _)
listItems(content, lastIndex, parentId, itemIndex) ==
    LET I == {p \in lastIndex..Len(content) : ItemAt(content, p) # 0}
    IN  IF I = {} THEN <<>>
        ELSE LET p == SetMin(I)
                 w == ItemAt(content, p)
                 e == LazyEnd(content, w,
                              {"\\item", "\\end{itemize}", "\\end{enumerate}"})
             IN  <<ItemChunk(parentId, itemIndex,
                             SubSeq(content, w, e - 1),
                             SubSeq(content, p, e - 1))>>
                 \o listItems(content, e, parentId, itemIndex + 1)

\* The six groups \{([^}]*)\} of \cventry tried from index q (n groups
\* left): the index of the last closing brace, 0 when a group is missing.
RECURSIVE CvGroupsEnd(_, _, _)
CvGroupsEnd(s, q, n) ==
    LET r == BraceGroupEnd(s, q, 0)
    IN  IF r = 0 THEN 0
        ELSE IF n = 1 THEN r
        ELSE CvGroupsEnd(s, r + 1, n - 1)

CvEntryAt(s, p) ==
    IF p > Len(s) \/ s[p] # "\\cventry" THEN 0 ELSE CvGroupsEnd(s, p + 1, 6)

\* the third pattern, /\\cventry\{([^}]*)\}...\{([^}]*)\}/g (six groups)
RECURSIVE cvItems(_, _, _, _)
cvItems(content, lastIndex, parentId, itemIndex) ==
    LET I == {p \in lastIndex..Len(content) : CvEntryAt(content, p) # 0}
    IN  IF I = {} THEN <<>>
        ELSE LET p == SetMin(I)
                 e == CvEntryAt(content, p)
                 g == BraceGroupEnd(content, p + 1, 0)
             IN  <<ItemChunk(parentId, itemIndex,
                             SubSeq(content, p + 2, g - 1),
                             SubSeq(content, p, e))>>
                 \o cvItems(content, e + 1, parentId, itemIndex + 1)

\* patterns.forEach: the three families one after the other over the same
\* content, itemIndex shared by the three.
parseItems(content, parentId) ==
    LET a == subsectionItems(content, 1, parentId, 0)
        b == listItems(content, 1, parentId, Len(a))
        c == cvItems(content, 1, parentId, Len(a) + Len(b))
    IN  a \o b \o c

\* sectionsFrom with globalIndex never advanced: every section "section-0".
RECURSIVE sectionsFromSameIndex(_, _, _)
sectionsFromSameIndex(body, lastIndex, globalIndex) ==
    LET p == NextHeader(body, lastIndex, "\\section")
    IN  IF p = 0 THEN <<>>
        ELSE LET h == HeaderAt(body, p, "\\section")
                 e == LazyEnd(body, h.close + 1, {"\\section"})
                 sectionContent == trim(SubSeq(body, h.close + 1, e - 1))
                 sectionId      == "section-" \o ToString(globalIndex)
             IN  <<ParsedChunk(sectionId, "section",
                               SubSeq(body, h.open + 1, h.close - 1),
                               sectionContent, SubSeq(body, p, e - 1), Undefined)>>
                 \o parseItems(sectionContent, sectionId)
                 \o sectionsFromSameIndex(body, e, globalIndex)

\* while ((match = sectionRegex.exec(body)) !== null), with
\* sectionRegex = /\\section\*?\{([^}]+)\}([\s\S]*?)(?=\\section|$)/g
RECURSIVE sectionsFrom(_, _, _)
sectionsFrom(body, lastIndex, globalIndex) ==
    LET p == NextHeader(body, lastIndex, "\\section")
    IN  IF p = 0 THEN <<>>
        ELSE LET h == HeaderAt(body, p, "\\section")
                 e == LazyEnd(body, h.close + 1, {"\\section"})
                 sectionTitle   == SubSeq(body, h.open + 1, h.close - 1)
                 sectionContent == trim(SubSeq(body, h.close + 1, e - 1))
                 sectionId      == "section-" \o ToString(globalIndex)
                 items          == parseItems(sectionContent, sectionId)
             IN  <<ParsedChunk(sectionId, "section", sectionTitle,
                               sectionContent, SubSeq(body, p, e - 1), Undefined)>>
                 \o items
                 \o sectionsFrom(body, e, globalIndex + 1 + Len(items))

parseSections(body) == sectionsFrom(body, 1, 0)

\* PreambleOf falling back to the whole text when there is no delimiter.
PreambleOfWholeText(content) ==
    LET b == IndexOfAny(content, 1, {BeginDoc})
    IN  IF b = 0 THEN trim(content) ELSE trim(SubSeq(content, 1, b - 1))

\* content.match(/([\s\S]*?)\\begin\{document\}/): group 1 trimmed, or "".
PreambleOf(content) ==
    LET b == IndexOfAny(content, 1, {BeginDoc})
    IN  IF b = 0 THEN <<>> ELSE trim(SubSeq(content, 1, b - 1))

\* content.match(/\\begin\{document\}([\s\S]*?)\\end\{document\}/): group 1
\* trimmed, or "".  The leftmost match starts at the first \begin{document}
\* and the lazy group ends at the first \end{document} after it.
BodyOf(content) ==
    LET b == IndexOfAny(content, 1, {BeginDoc})
        e == IF b = 0 THEN 0 ELSE IndexOfAny(content, b + 1, {EndDoc})
    IN  IF e = 0 THEN <<>> ELSE trim(SubSeq(content, b + 1, e - 1))

\* chunks.map((chunk, idx) => ({...chunk, order: idx, isActive: true}))
WithOrder(cs) ==
    [i \in 1..Len(cs) |->
        [id |-> cs[i].id, type |-> cs[i].type, title |-> cs[i].title,
         content |-> cs[i].content, rawLatex |-> cs[i].rawLatex,
         order |-> i - 1, isActive |-> TRUE, parentId |-> cs[i].parentId]]

\* documentClass and packages are read by nothing in the repository and
\* are left out of the record.
parseLatexFile(content) ==
    [preamble     |-> PreambleOf(content),
     activeChunks |-> WithOrder(parseSections(BodyOf(content)))]

----------------------------------------------------------------------------
(* lib/latex-generator.ts                                                  *)

\* Array.prototype.sort((a, b) => a.order - b.order), a stable sort: the
\* first of the chunks of least order comes first.
RECURSIVE SortByOrder(_)
SortByOrder(cs) ==
    IF cs = <<>> THEN <<>>
    ELSE LET i == SetMin({k \in 1..Len(cs) :
                            \A j \in 1..Len(cs) : cs[k].order <= cs[j].order})
         IN  <<cs[i]>> \o SortByOrder(SubSeq(cs, 1, i - 1) \o SubSeq(cs, i + 1, Len(cs)))

IsActiveChunk(c)  == c.isActive
IsSectionChunk(c) == c.type = "section"

\* const sortedChunks = [...activeChunks].filter(c => c.isActive).sort(...)
SortedActive(cs) == SortByOrder(SelectSeq(cs, IsActiveChunk))

\* sortedChunks.filter(c => c.parentId === section.id)
ChildItems(section, sortedChunks) ==
    LET IsChild(c) == c.parentId = section.id
    IN  SelectSeq(sortedChunks, IsChild)

\* The chunks whose rawLatex generateLatex appends, in the order it appends
\* them: sectionChunks.forEach(section => ... childItems.forEach(...)).
RECURSIVE EmitChunks(_, _)
EmitChunks(sectionChunks, sortedChunks) ==
    IF sectionChunks = <<>> THEN <<>>
    ELSE <<Head(sectionChunks)>> \o ChildItems(Head(sectionChunks), sortedChunks)
         \o EmitChunks(Tail(sectionChunks), sortedChunks)

EmissionOrder(data) ==
    LET sortedChunks == SortedActive(data.activeChunks)
    IN  EmitChunks(SelectSeq(sortedChunks, IsSectionChunk), sortedChunks)

\* childItems.forEach(item => { latex += '\n' + item.rawLatex; })
RECURSIVE ItemsText(_)
ItemsText(items) ==
    IF items = <<>> THEN <<>>
    ELSE <<"\n">> \o Head(items).rawLatex \o ItemsText(Tail(items))

\* sectionChunks.forEach(section => { latex += section.rawLatex; ...;
\* latex += '\n\n'; })
RECURSIVE SectionsText(_, _)
SectionsText(sectionChunks, sortedChunks) ==
    IF sectionChunks = <<>> THEN <<>>
    ELSE Head(sectionChunks).rawLatex
         \o ItemsText(ChildItems(Head(sectionChunks), sortedChunks))
         \o <<"\n", "\n">>
         \o SectionsText(Tail(sectionChunks), sortedChunks)

generateLatex(data) ==
    LET sortedChunks == SortedActive(data.activeChunks)
    IN  data.preamble \o <<"\n", "\n", BeginDoc, "\n", "\n">>
        \o SectionsText(SelectSeq(sortedChunks, IsSectionChunk), sortedChunks)
        \o <<EndDoc>>

----------------------------------------------------------------------------
(* The parse -> generate -> parse pipeline, over bounded source texts.     *)

SectionA == <<"\\section", "{", "Experience", "}">>
SectionB == <<"\\section", "*", "{", "Education", "}">>
ListItem == <<"\\item", " ", "Led a team">>

\* What a body is built from: well-formed commands, a header with an empty
\* title (which the section pattern rejects and its lookahead accepts),
\* plain text and white space.
Pieces ==
    { SectionA, SectionB, <<"\\section", "{", "}">>, ListItem,
      <<"\\subsection", "{", "Engineer", "}">>, <<"\\end{itemize}">>,
      <<"\\cventry", "{", "2020", "}", "{", "Dev", "}", "{", "}", "{", "}",
        "{", "}", "{", "}">>,
      <<"text">>, <<"\n">> }

RECURSIVE Compose(_)
Compose(n) ==
    IF n = 0 THEN {<<>>}
    ELSE LET shorter == Compose(n - 1)
         IN  shorter \cup {b \o p : b \in shorter, p \in Pieces}

Bodies == Compose(MaxPieces)

DocClass == <<"\\documentclass{article}", "\n">>

\* A body between the delimiters, a body with no delimiter at all, and a
\* body after \begin{document} that no \end{document} closes.
Wrapped(body) == DocClass \o <<BeginDoc>> \o body \o <<EndDoc>>
Sources ==
    {Wrapped(b) : b \in Bodies} \cup Bodies
    \cup {DocClass \o <<BeginDoc>> \o b : b \in Bodies}

NoData == [preamble |-> <<>>, activeChunks |-> <<>>]

Parse ==
    /\ stage = "source"
    /\ parsed' = parseLatexFile(source)
    /\ stage' = "parsed"
    /\ UNCHANGED <<source, emitted, reparsed>>
    /\ UNCHANGED editorVars

Generate ==
    /\ stage = "parsed"
    /\ emitted' = generateLatex(parsed)
    /\ stage' = "emitted"
    /\ UNCHANGED <<source, parsed, reparsed>>
    /\ UNCHANGED editorVars

Reparse ==
    /\ stage = "emitted"
    /\ reparsed' = parseLatexFile(emitted)
    /\ stage' = "reparsed"
    /\ UNCHANGED <<source, parsed, emitted>>
    /\ UNCHANGED editorVars

----------------------------------------------------------------------------
(* lib/pdf-parser.ts                                                       *)

\* The words of the modelled texts, each as <<lower, Capitalised, UPPER>>:
\* what toLowerCase, toUpperCase and the i flag of a pattern relate.
WordForms ==
    { <<"experience", "Experience", "EXPERIENCE">>,
      <<"skills", "Skills", "SKILLS">>,
      <<"education", "Education", "EDUCATION">>,
      <<"work", "Work", "WORK">>,
      <<"built", "Built", "BUILT">>,
      <<"python", "Python", "PYTHON">> }

IsWord(t)         == \E w \in WordForms : t \in {w[1], w[2], w[3]}
FormsOf(t)        == CHOOSE w \in WordForms : t \in {w[1], w[2], w[3]}
toUpperCase(t)    == IF IsWord(t) THEN FormsOf(t)[3] ELSE t
toLowerCase(t)    == IF IsWord(t) THEN FormsOf(t)[1] ELSE t
Capitalised(t)    == IF IsWord(t) THEN FormsOf(t)[2] ELSE t
\* /[A-Z]/.test(t[0])
StartsUpperCase(t) == \E w \in WordForms : t \in {w[2], w[3]}
IsDigit(t)        == t \in {"0", "1", "2", "3", "4", "5", "6", "7", "8", "9"}

\* The alternatives of sectionPatterns, each /^(...)/im.
SectionKeywords ==
    { <<"EXPERIENCE">>, <<"WORK", " ", "EXPERIENCE">>,
      <<"PROFESSIONAL", " ", "EXPERIENCE">>, <<"EMPLOYMENT">>,
      <<"EDUCATION">>, <<"ACADEMIC", " ", "BACKGROUND">>,
      <<"SKILLS">>, <<"TECHNICAL", " ", "SKILLS">>, <<"CORE", " ", "COMPETENCIES">>,
      <<"PROJECTS">>, <<"PERSONAL", " ", "PROJECTS">>, <<"KEY", " ", "PROJECTS">>,
      <<"CERTIFICATIONS">>, <<"CERTIFICATES">>, <<"LICENSES">>,
      <<"AWARDS">>, <<"ACHIEVEMENTS">>, <<"HONORS">>,
      <<"SUMMARY">>, <<"PROFESSIONAL", " ", "SUMMARY">>, <<"PROFILE">>,
      <<"PUBLICATIONS">>, <<"RESEARCH">>,
      <<"VOLUNTEER">>, <<"VOLUNTEER", " ", "EXPERIENCE">>,
      <<"LANGUAGES">>, <<"LANGUAGE", " ", "SKILLS">> }

\* pattern.test(line) for some pattern: the line starts with a keyword,
\* letter case ignored.
IsSectionHeader(line) ==
    \E k \in SectionKeywords :
        /\ Len(k) <= Len(line)
        /\ \A i \in 1..Len(k) : toUpperCase(line[i]) = k[i]

\* String.prototype.split("\n")
RECURSIVE SplitLines(_)
SplitLines(text) ==
    LET n == IndexOfAny(text, 1, {"\n"})
    IN  IF n = 0 THEN <<text>>
        ELSE <<SubSeq(text, 1, n - 1)>> \o SplitLines(SubSeq(text, n + 1, Len(text)))

\* Array.prototype.join("\n")
RECURSIVE JoinLines(_)
JoinLines(lines) ==
    IF lines = <<>> THEN <<>>
    ELSE IF Len(lines) = 1 THEN lines[1]
    ELSE lines[1] \o <<"\n">> \o JoinLines(Tail(lines))

NonEmpty(line) == line # <<>>

\* text.split("\n").map(line => line.trim()).filter(Boolean)
TrimmedLines(text) ==
    LET ls == SplitLines(text)
    IN  SelectSeq([i \in 1..Len(ls) |-> trim(ls[i])], NonEmpty)

\* String.prototype.replace(pattern, ...) with the g flag, the pattern
\* matching one character: every lexeme is replaced by Sub(lexeme).
ReplaceEach(s, Sub(_)) ==
    LET RECURSIVE from(_)
        from(i) == IF i > Len(s) THEN <<>> ELSE Sub(s[i]) \o from(i + 1)
    IN  from(1)

\* escapeLatex: four replace calls, each over the result of the one before.
escapeLatex(text) ==
    LET Backslash(t)  == IF t = "\\" THEN <<"\\textbackslash", "{", "}">> ELSE <<t>>
        Special(t)    == IF t \in {"&", "%", "$", "#", "_", "{", "}"}
                         THEN <<"\\", t>> ELSE <<t>>
        Tilde(t)      == IF t = "~" THEN <<"\\textasciitilde", "{", "}">> ELSE <<t>>
        Circumflex(t) == IF t = "^" THEN <<"\\textasciicircum", "{", "}">> ELSE <<t>>
    IN  ReplaceEach(ReplaceEach(ReplaceEach(ReplaceEach(text, Backslash),
                                            Special), Tilde), Circumflex)

\* trimmedLine.length
RECURSIVE LineLength(_)
LineLength(line) ==
    IF line = <<>> THEN 0 ELSE Len(Head(line)) + LineLength(Tail(line))

SubsectionMaxLength == 100

\* trimmedLine.replace(/^[•\-*]\s*/, "")
StripBullet(line) ==
    LET I == {i \in 2..Len(line) : ~IsSpace(line[i])}
    IN  IF I = {} THEN <<>> ELSE SubSeq(line, SetMin(I), Len(line))

\* The body of the loop of convertToLatex for one line.
ConvertLine(line) ==
    LET trimmedLine == trim(line)
    IN  IF trimmedLine # <<>> /\ trimmedLine[1] \in {"\\u2022", "-", "*"}
        THEN <<" ", " ", "\\item", " ">> \o escapeLatex(StripBullet(trimmedLine))
             \o <<"\n">>
        ELSE IF /\ LineLength(trimmedLine) < SubsectionMaxLength
                /\ trimmedLine # <<>>
                /\ StartsUpperCase(trimmedLine[1])
        THEN <<"\\subsection", "{">> \o escapeLatex(trimmedLine) \o <<"}", "\n">>
        ELSE escapeLatex(trimmedLine) \o <<"\\\\", "\n">>

RECURSIVE ConvertLines(_)
ConvertLines(lines) ==
    IF lines = <<>> THEN <<>>
    ELSE ConvertLine(Head(lines)) \o ConvertLines(Tail(lines))

\* text.split("\n").filter(Boolean), then the loop.
convertToLatex(text) == ConvertLines(SelectSeq(SplitLines(text), NonEmpty))

\* The words of s.split(/\s+/), s trimmed.
RECURSIVE SplitWords(_)
SplitWords(s) ==
    IF s = <<>> THEN <<>>
    ELSE LET sp == IndexOfAny(s, 1, {" ", "\n"})
         IN  IF sp = 0 THEN <<s>>
             ELSE <<SubSeq(s, 1, sp - 1)>>
                  \o SplitWords(trim(SubSeq(s, sp, Len(s))))

\* word.charAt(0).toUpperCase() + word.slice(1).toLowerCase()
CapitaliseWord(word) ==
    [i \in 1..Len(word) |-> IF i = 1 THEN Capitalised(word[i]) ELSE toLowerCase(word[i])]

RECURSIVE JoinWords(_)
JoinWords(words) ==
    IF words = <<>> THEN <<>>
    ELSE IF Len(words) = 1 THEN words[1]
    ELSE words[1] \o <<" ">> \o JoinWords(Tail(words))

cleanTitle(title) ==
    LET letters  == {i \in 1..Len(title) : IsWord(title[i])}
        stripped == IF letters = {} THEN <<>>
                    ELSE SubSeq(title, SetMin(letters), Len(title))
        Plain(t) == IsWord(t) \/ IsDigit(t) \/ IsSpace(t)
        words    == SplitWords(trim(SelectSeq(stripped, Plain)))
    IN  JoinWords([i \in 1..Len(words) |-> CapitaliseWord(words[i])])

createChunk(title, content, index) ==
    LET contentText == JoinLines(content)
    IN  ParsedChunk("section-" \o ToString(index), "section", cleanTitle(title),
                    contentText,
                    <<"\\section", "{">> \o title \o <<"}", "\n", "\n">>
                        \o convertToLatex(contentText),
                    Undefined)

\* The loop of parseTextToChunks from line i on and the flush after it;
\* currentSection = << >> stands for null (a line is never empty).
RECURSIVE SegmentFrom(_, _, _, _, _)
SegmentFrom(lines, i, currentSection, currentContent, chunkIndex) ==
    LET flush == currentSection # <<>> /\ currentContent # <<>>
    IN  IF i > Len(lines)
        THEN IF flush
             THEN <<createChunk(currentSection, currentContent, chunkIndex)>>
             ELSE <<>>
        ELSE IF IsSectionHeader(lines[i])
        THEN IF flush
             THEN <<createChunk(currentSection, currentContent, chunkIndex)>>
                  \o SegmentFrom(lines, i + 1, lines[i], <<>>, chunkIndex + 1)
             ELSE SegmentFrom(lines, i + 1, lines[i], currentContent, chunkIndex)
        ELSE IF currentSection # <<>>
        THEN SegmentFrom(lines, i + 1, currentSection,
                         Append(currentContent, lines[i]), chunkIndex)
        ELSE SegmentFrom(lines, i + 1, currentSection, currentContent, chunkIndex)

parseTextToChunks(text) ==
    LET found == SegmentFrom(TrimmedLines(text), 1, <<>>, <<>>, 0)
    IN  IF found = <<>>
        THEN <<ParsedChunk("section-0", "section", <<"Resume", " ", "Content">>, text,
                           <<"\\section", "{", "Resume", " ", "Content", "}", "\n", "\n">>
                               \o text,
                           Undefined)>>
        ELSE found

\* extractTextFromPdf: the items of a page joined by " ", each page
\* followed by "\n\n".
RECURSIVE JoinItems(_)
JoinItems(items) ==
    IF items = <<>> THEN <<>>
    ELSE IF Len(items) = 1 THEN items[1]
    ELSE items[1] \o <<" ">> \o JoinItems(Tail(items))

RECURSIVE extractTextFromPdf(_)
extractTextFromPdf(pages) ==
    IF pages = <<>> THEN <<>>
    ELSE JoinItems(Head(pages)) \o <<"\n", "\n">> \o extractTextFromPdf(Tail(pages))

\* The default preamble of parsePdfToChunks, which ends in \begin{document}.
PdfPreamble ==
    <<"\\documentclass[11pt,a4paper]{article}...\\usepackage{hyperref}", "\n", "\n",
      BeginDoc>>

parsePdfToChunks(pages) ==
    [chunks   |-> parseTextToChunks(extractTextFromPdf(pages)),
     preamble |-> PdfPreamble]

----------------------------------------------------------------------------
(* The heuristic segmenter over bounded texts.                             *)

\* The characters LaTeX treats as control characters.
ControlChars == {"\\", "&", "%", "$", "#", "_", "{", "}", "~", "^"}

\* What a body line is made of: the control characters, a word in lower
\* case, a word that starts in upper case, and a bullet.
LineAlphabet == ControlChars \cup {"built", "Python", "-"}

RECURSIVE LinesOver(_)
LinesOver(n) ==
    IF n = 0 THEN {<<>>}
    ELSE LET shorter == LinesOver(n - 1)
         IN  shorter \cup {l \o <<c>> : l \in shorter, c \in LineAlphabet}

\* A header line and one body line of up to MaxChars characters; a header
\* line that holds a control character, and a body line.
EscapeTexts ==
    {<<"SKILLS", "\n">> \o l : l \in LinesOver(MaxChars) \ {<<>>}}
    \cup {<<"Education", " ", c, "\n", "built">> : c \in ControlChars}

\* Up to MaxLines lines, each a header line, a body line or empty.
RECURSIVE TextsOf(_)
TextsOf(n) ==
    LET lines == {<<"EXPERIENCE">>, <<"Skills">>, <<"built">>, <<"Python">>, <<>>}
    IN  IF n = 1 THEN lines
        ELSE LET shorter == TextsOf(n - 1)
             IN  shorter \cup {t \o <<"\n">> \o l : t \in shorter, l \in lines}

PdfTexts == EscapeTexts \cup TextsOf(MaxLines)

\* parseTextToChunks on the extracted text, and what the pdf branch of
\* handleFileUpload makes of its chunks: order idx, isActive true.
Segment ==
    /\ stage = "text"
    /\ parsed' = [preamble     |-> PdfPreamble,
                  activeChunks |-> WithOrder(parseTextToChunks(source))]
    /\ stage' = "parsed"
    /\ UNCHANGED <<source, emitted, reparsed>>
    /\ UNCHANGED editorVars

----------------------------------------------------------------------------
(* components/ResumeEditor.tsx: the state of ResumeBuilder.                *)

Chunk(id, type, title, rawLatex, order, isActive) ==
    [id |-> id, type |-> type, title |-> title, content |-> <<>>,
     rawLatex |-> rawLatex, order |-> order, isActive |-> isActive,
     parentId |-> Undefined]

\* useState<ResumeChunk[]>([...]): the five sample chunks.  No pattern is
\* ever applied to a sample text, so each is written as its header
\* followed by one lexeme for the rest.
InitialChunks ==
    << Chunk("1", "section", <<"Experience">>,
             <<"\\section", "{", "Experience", "}", "\n", "\n",
               "\\subsection{Software Engineer at TechCorp}...\\end{itemize}">>,
             0, TRUE),
       Chunk("2", "section", <<"Education">>,
             <<"\\section", "{", "Education", "}", "\n", "\n",
               "\\subsection{B.S. Computer Science}...GPA: 3.8/4.0">>,
             1, TRUE),
       Chunk("3", "section", <<"Skills">>,
             <<"\\section", "{", "Skills", "}", "\n", "\n",
               "\\textbf{Languages:}...Django">>,
             2, TRUE),
       Chunk("4", "item", <<"Senior Developer Role">>,
             <<"\\subsection{Senior Developer at StartupXYZ}...\\end{itemize}">>,
             3, FALSE),
       Chunk("5", "section", <<"Projects">>,
             <<"\\section", "{", "Projects", "}", "\n", "\n",
               "\\textbf{Open Source Contribution}...1000+ stars">>,
             4, FALSE) >>

\* useState(`\documentclass ... \begin{document} ... \vspace{0.5cm}`)
InitialPreamble ==
    <<"\\documentclass[11pt,a4paper]{article}...\\geometry{margin=1in}", "\n", "\n",
      BeginDoc, "\n", "\n",
      "\\begin{center}...\\end{center}", "\n", "\n",
      "\\vspace{0.5cm}">>

IsStandbyChunk(c) == ~c.isActive

\* chunks.filter(c => c.isActive).sort((a, b) => a.order - b.order)
activeChunks(cs)  == SortByOrder(SelectSeq(cs, IsActiveChunk))
\* chunks.filter(c => !c.isActive).sort((a, b) => a.order - b.order)
standbyChunks(cs) == SortByOrder(SelectSeq(cs, IsStandbyChunk))

ChunkIds(cs) == {cs[i].id : i \in 1..Len(cs)}

\* Array.prototype.find / findIndex by id: the 1-based index of the first
\* chunk with that id, 0 when there is none.
FindIndex(cs, id) ==
    LET I == {i \in 1..Len(cs) : cs[i].id = id}
    IN  IF I = {} THEN 0 ELSE SetMin(I)

\* arrayMove exchanging the two elements instead of moving one.
arraySwap(array, from, to) ==
    [i \in 1..Len(array) |->
        IF i = from THEN array[to] ELSE IF i = to THEN array[from] ELSE array[i]]

\* arrayMove of @dnd-kit/sortable: the element at `from` is taken out and
\* put back at `to` (1-based here).
arrayMove(array, from, to) ==
    LET without == SubSeq(array, 1, from - 1) \o SubSeq(array, from + 1, Len(array))
    IN  SubSeq(without, 1, to - 1) \o <<array[from]>> \o SubSeq(without, to, Len(without))

Null == "null"

\* handleDragEnd numbering every chunk of the collection, not only the
\* chunks of the dragged chunk's list.
handleDragEndAllChunks(cs, active, over) ==
    IF over = Null \/ active = over THEN cs
    ELSE IF FindIndex(cs, active) = 0 \/ FindIndex(cs, over) = 0 THEN cs
    ELSE IF cs[FindIndex(cs, active)].isActive # cs[FindIndex(cs, over)].isActive THEN cs
    ELSE LET reordered == arrayMove(cs, FindIndex(cs, active), FindIndex(cs, over))
         IN  [i \in 1..Len(cs) |->
                 [cs[i] EXCEPT !.order = FindIndex(reordered, cs[i].id) - 1]]

\* handleDragEnd: the chunk collection after the drag of `active` onto
\* `over` (Null: dropped outside every chunk).
handleDragEnd(cs, active, over) ==
    IF over = Null \/ active = over THEN cs
    ELSE IF FindIndex(cs, active) = 0 \/ FindIndex(cs, over) = 0 THEN cs
    ELSE LET activeChunk == cs[FindIndex(cs, active)]
             overChunk   == cs[FindIndex(cs, over)]
         IN  IF activeChunk.isActive # overChunk.isActive THEN cs
             ELSE LET items == IF activeChunk.isActive
                               THEN activeChunks(cs) ELSE standbyChunks(cs)
                      reordered == arrayMove(items, FindIndex(items, active),
                                             FindIndex(items, over))
                  IN  [i \in 1..Len(cs) |->
                          IF FindIndex(reordered, cs[i].id) # 0
                          THEN [cs[i] EXCEPT !.order = FindIndex(reordered, cs[i].id) - 1]
                          ELSE cs[i]]

\* toggleChunkActive that also moves the chunk to the end of its new list.
toggleChunkToEnd(cs, id) ==
    [i \in 1..Len(cs) |->
        IF cs[i].id = id
        THEN [cs[i] EXCEPT !.isActive = ~cs[i].isActive, !.order = Len(cs)]
        ELSE cs[i]]

\* toggleChunkActive
toggleChunkActive(cs, id) ==
    [i \in 1..Len(cs) |->
        IF cs[i].id = id THEN [cs[i] EXCEPT !.isActive = ~cs[i].isActive] ELSE cs[i]]

\* deleteChunk
deleteChunk(cs, id) ==
    LET Other(c) == c.id # id
    IN  SelectSeq(cs, Other)

\* generateLatex of the component (what Download writes): the preamble and
\* every active chunk in order, no \begin{document} added.
RECURSIVE ChunksText(_)
ChunksText(cs) ==
    IF cs = <<>> THEN <<>>
    ELSE Head(cs).rawLatex \o <<"\n", "\n">> \o ChunksText(Tail(cs))

\* The chunks whose rawLatex the component's generateLatex appends, in the
\* order it appends them: activeChunks.forEach(chunk => ...).
editorEmissionOrder(cs) == activeChunks(cs)

editorGenerateLatex(pre, cs) ==
    pre \o <<"\n", "\n">> \o ChunksText(editorEmissionOrder(cs)) \o <<EndDoc>>

----------------------------------------------------------------------------
(* handleFileUpload.  A file is its name, as the parts between the dots,   *)
(* and what reading it yields: `text` (file.text()) for a markup source,   *)
(* `pages` (the text items of each page) for a PDF.                        *)

File(name, text, pages) == [name |-> name, text |-> text, pages |-> pages]

TexResume ==
    File(<<"resume", "tex">>,
         Wrapped(SectionA \o <<"\n">> \o ListItem \o <<"\n">> \o SectionB
                 \o <<"\n">> \o <<"text">>),
         <<>>)
PdfResume ==
    File(<<"resume", "v2", "PDF">>, <<>>,
         << << <<"Skills">> >>,
            << <<"-", " ", "Python">>, <<"&">>, <<"\\">> >>,
            << <<"EDUCATION">>, <<"2", "0">> >>,
            << <<"built", "_", "work">> >> >>)
TxtFile == File(<<"resume", "txt">>, SectionA, <<>>)
NoExtension == File(<<"resume">>, SectionA, <<>>)

Files == {TexResume, PdfResume, TxtFile, NoExtension}

\* String.prototype.toLowerCase on an extension.
ExtensionLower(e) ==
    CASE e = "TEX" -> "tex"
      [] e = "PDF" -> "pdf"
      [] OTHER     -> e

\* file.name.split(".").pop()?.toLowerCase()
fileExtension(f) == ExtensionLower(f.name[Len(f.name)])

\* The preamble and the chunk collection a resolved upload of f commits:
\* setPreamble(...) and setChunks(allChunks) of the pdf and of the tex
\* branch.
ImportOf(f) ==
    IF fileExtension(f) = "pdf"
    THEN LET r == parsePdfToChunks(f.pages)
         IN  [preamble |-> r.preamble, chunks |-> WithOrder(r.chunks)]
    ELSE LET parsedData == parseLatexFile(f.text)
         IN  [preamble |-> parsedData.preamble, chunks |-> parsedData.activeChunks]

\* ImportOf over the files of the model, computed once.
Imported == [f \in Files |-> ImportOf(f)]

\* handleFileUpload up to its first await: no file, an unsupported
\* extension (alert, nothing else), or a read that is now pending.
UploadStart(files) ==
    /\ IF files = <<>>
       THEN /\ last' = "uploadNoFile"
            /\ UNCHANGED inflight
       ELSE IF fileExtension(files[1]) \in {"pdf", "tex"}
       THEN /\ Cardinality(inflight) < MaxPending
            /\ files[1] \notin inflight
            /\ inflight' = inflight \cup {files[1]}
            /\ last' = "uploadStart"
       ELSE /\ last' = "uploadUnsupported"
            /\ UNCHANGED inflight
    /\ parserRan' = FALSE
    /\ UNCHANGED <<chunks, preamble, nEdits>>
    /\ UNCHANGED pipeVars

\* UploadResolve rendered between setPreamble and setChunks: the preamble
\* of the upload beside the chunks of the document before it.
UploadResolvePreambleOnly(f) ==
    /\ f \in inflight
    /\ inflight' = inflight \ {f}
    /\ preamble' = Imported[f].preamble
    /\ last' = "uploadDone"
    /\ parserRan' = TRUE
    /\ UNCHANGED <<chunks, nEdits>>
    /\ UNCHANGED pipeVars

\* The await of the upload of f resolves: the rest of the try block runs,
\* the parser, setPreamble and setChunks, and React renders both updates
\* together.
UploadResolve(f) ==
    /\ f \in inflight
    /\ inflight' = inflight \ {f}
    /\ preamble' = Imported[f].preamble
    /\ chunks' = Imported[f].chunks
    /\ last' = "uploadDone"
    /\ parserRan' = TRUE
    /\ UNCHANGED nEdits
    /\ UNCHANGED pipeVars

\* UploadReject that empties the chunk collection before it alerts.
UploadRejectClearing(f) ==
    /\ f \in inflight
    /\ inflight' = inflight \ {f}
    /\ chunks' = <<>>
    /\ last' = "uploadFailed"
    /\ parserRan' = FALSE
    /\ UNCHANGED <<preamble, nEdits>>
    /\ UNCHANGED pipeVars

\* The await of the upload of f rejects (the file cannot be read, the
\* extraction fails): the catch block alerts.
UploadReject(f) ==
    /\ f \in inflight
    /\ inflight' = inflight \ {f}
    /\ last' = "uploadFailed"
    /\ parserRan' = FALSE
    /\ UNCHANGED <<chunks, preamble, nEdits>>
    /\ UNCHANGED pipeVars

DragEnd(active, over) ==
    /\ nEdits < MaxEdits
    /\ nEdits' = nEdits + 1
    /\ chunks' = handleDragEnd(chunks, active, over)
    /\ last' = "dragEnd"
    /\ parserRan' = FALSE
    /\ UNCHANGED <<preamble, inflight>>
    /\ UNCHANGED pipeVars

Toggle(id) ==
    /\ nEdits < MaxEdits
    /\ nEdits' = nEdits + 1
    /\ chunks' = toggleChunkActive(chunks, id)
    /\ last' = "toggle"
    /\ parserRan' = FALSE
    /\ UNCHANGED <<preamble, inflight>>
    /\ UNCHANGED pipeVars

Delete(id) ==
    /\ nEdits < MaxEdits
    /\ nEdits' = nEdits + 1
    /\ chunks' = deleteChunk(chunks, id)
    /\ last' = "delete"
    /\ parserRan' = FALSE
    /\ UNCHANGED <<preamble, inflight>>
    /\ UNCHANGED pipeVars

----------------------------------------------------------------------------
(* The specifications.                                                     *)

\* The editor: the component after its first render, then any events.
Init ==
    /\ chunks = InitialChunks
    /\ preamble = InitialPreamble
    /\ inflight = {}
    /\ nEdits = 0
    /\ last = "init"
    /\ parserRan = FALSE
    /\ source = <<>>
    /\ parsed = NoData
    /\ emitted = <<>>
    /\ reparsed = NoData
    /\ stage = "off"

Next ==
    \/ \E files \in {<<>>} \cup {<<f>> : f \in Files} : UploadStart(files)
    \/ \E f \in inflight : UploadResolve(f)
    \/ \E f \in inflight : UploadReject(f)
    \/ \E active \in ChunkIds(chunks), over \in ChunkIds(chunks) \cup {Null} :
           DragEnd(active, over)
    \/ \E id \in ChunkIds(chunks) : Toggle(id)
    \/ \E id \in ChunkIds(chunks) : Delete(id)

Spec == Init /\ [][Next]_vars

\* The edit events alone, from the documents the editor can hold: the
\* sample document and what an upload commits.
Documents ==
    {[preamble |-> InitialPreamble, chunks |-> InitialChunks]}
    \cup {Imported[f] : f \in {TexResume, PdfResume}}

InitEdits ==
    /\ \E d \in Documents : chunks = d.chunks /\ preamble = d.preamble
    /\ inflight = {}
    /\ nEdits = 0
    /\ last = "init"
    /\ parserRan = FALSE
    /\ source = <<>>
    /\ parsed = NoData
    /\ emitted = <<>>
    /\ reparsed = NoData
    /\ stage = "off"

NextEdits ==
    \/ \E active \in ChunkIds(chunks), over \in ChunkIds(chunks) \cup {Null} :
           DragEnd(active, over)
    \/ \E id \in ChunkIds(chunks) : Toggle(id)
    \/ \E id \in ChunkIds(chunks) : Delete(id)

SpecEdits == InitEdits /\ [][NextEdits]_vars

\* The pipeline: a source text, parsed, regenerated and parsed again.
InitPipeline ==
    /\ chunks = InitialChunks
    /\ preamble = InitialPreamble
    /\ inflight = {}
    /\ nEdits = 0
    /\ last = "init"
    /\ parserRan = FALSE
    /\ source \in Sources
    /\ parsed = NoData
    /\ emitted = <<>>
    /\ reparsed = NoData
    /\ stage = "source"

NextPipeline == Parse \/ Generate \/ Reparse

SpecPipeline == InitPipeline /\ [][NextPipeline]_vars

\* The heuristic import: an extracted text, segmented, then regenerated.
InitHeuristic ==
    /\ chunks = InitialChunks
    /\ preamble = InitialPreamble
    /\ inflight = {}
    /\ nEdits = 0
    /\ last = "init"
    /\ parserRan = FALSE
    /\ source \in PdfTexts
    /\ parsed = NoData
    /\ emitted = <<>>
    /\ reparsed = NoData
    /\ stage = "text"

NextHeuristic == Segment \/ Generate

SpecHeuristic == InitHeuristic /\ [][NextHeuristic]_vars

----------------------------------------------------------------------------
(* Properties of the pipeline (SpecPipeline).                              *)

Lexemes(s) == {s[i] : i \in 1..Len(s)}
RawTexts(cs) == [i \in 1..Len(cs) |-> cs[i].rawLatex]

\* C1: round trip.  Parsing the text generated from a parsed document
\* yields, chunk for chunk and in the same sequence, the rawLatex of the
\* sections and items of that document.
C1_RoundTrip ==
    stage = "reparsed" =>
        RawTexts(reparsed.activeChunks) = RawTexts(parsed.activeChunks)

\* C9 as claimed: a source without \begin{document} parses to a preamble
\* equal to the whole source trimmed and to no chunk.
C9_PreambleIsWholeText ==
    (stage # "source" /\ BeginDoc \notin Lexemes(source)) =>
        /\ parsed.preamble = trim(source)
        /\ parsed.activeChunks = <<>>

\* C9 as amended: a source without \begin{document} parses to the empty
\* preamble and to no chunk, whatever the source holds.
C9_PreambleIsEmpty ==
    (stage # "source" /\ BeginDoc \notin Lexemes(source)) =>
        /\ parsed.preamble = <<>>
        /\ parsed.activeChunks = <<>>

\* A source without delimiters that holds a section and an item has been
\* parsed.
C9_Witness ==
    /\ stage = "parsed"
    /\ source = SectionA \o <<"\n">> \o ListItem
    /\ trim(source) # <<>>
    /\ parsed = NoData

\* A text made of one section header followed by list items and white
\* space only.
IsHeaderThenItems(text) ==
    \E h \in {SectionA, SectionB} :
        /\ Len(text) > Len(h)
        /\ SubSeq(text, 1, Len(h)) = h
        /\ LET rest == SubSeq(text, Len(h) + 1, Len(text))
           IN  /\ Lexemes(rest) \subseteq {"\\item", " ", "\n", "Led a team"}
               /\ "\\item" \in Lexemes(rest)

HeaderTitle(text) ==
    IF SubSeq(text, 1, Len(SectionA)) = SectionA THEN <<"Experience">> ELSE <<"Education">>

ItemCount(text) == Cardinality({i \in 1..Len(text) : text[i] = "\\item"})

\* The chunk list C10 describes for a header followed by k list items.
IsSectionWithItems(cs, text) ==
    /\ Len(cs) = 1 + ItemCount(text)
    /\ cs[1].id = "section-0"
    /\ cs[1].type = "section"
    /\ cs[1].title = HeaderTitle(text)
    /\ \A k \in 1..ItemCount(text) :
          /\ cs[1 + k].id = "section-0-item-" \o ToString(k - 1)
          /\ cs[1 + k].type = "item"
          /\ cs[1 + k].parentId = "section-0"
          /\ "Led a team" \in Lexemes(cs[1 + k].content)

\* C10 as claimed: an input that is one section header followed by list
\* items parses to the section chunk and one item chunk per list item.
C10_HeaderThenItemsInput ==
    (stage # "source" /\ IsHeaderThenItems(source)) =>
        IsSectionWithItems(parsed.activeChunks, source)

\* C10 as amended: an input whose body, between \begin{document} and
\* \end{document}, is one section header followed by list items parses to
\* the section chunk "section-0" and the item chunks "section-0-item-<k>".
C10_HeaderThenItemsBody ==
    LET inner == SubSeq(source, Len(DocClass) + 2, Len(source) - 1)
    IN  (stage # "source" /\ source = Wrapped(inner) /\ IsHeaderThenItems(inner)) =>
            IsSectionWithItems(parsed.activeChunks, inner)

\* The example of the claim, between the delimiters, parsed to two chunks.
C10_Witness ==
    /\ stage = "parsed"
    /\ source = Wrapped(SectionA \o <<"\n">> \o ListItem)
    /\ Len(parsed.activeChunks) = 2
    /\ parsed.activeChunks[2].id = "section-0-item-0"

\* The identifiers of one structural parse are pairwise distinct (C5, for
\* every source of the pipeline).
PipelineIdsDistinct ==
    \A i, j \in 1..Len(parsed.activeChunks) :
        parsed.activeChunks[i].id = parsed.activeChunks[j].id => i = j

----------------------------------------------------------------------------
(* Properties of the editor (Spec, SpecEdits).                             *)

Indices(cs) == 1..Len(cs)

\* i comes before j in the order-sorted reading of cs: a smaller order, or
\* the same order and an earlier place in the collection.
Before(cs, i, j) ==
    \/ cs[i].order < cs[j].order
    \/ cs[i].order = cs[j].order /\ i < j

\* The indices of S in that reading: the p-th is the one p - 1 others
\* come before.
Ranked(cs, S) ==
    [p \in 1..Cardinality(S) |->
        CHOOSE i \in S : Cardinality({j \in S : Before(cs, j, i)}) = p - 1]

ActiveSections(cs) == {i \in Indices(cs) : cs[i].isActive /\ cs[i].type = "section"}
ActiveChildren(cs, i) ==
    {j \in Indices(cs) : cs[j].isActive /\ cs[j].parentId = cs[i].id}

\* The arrangement C2 describes, as indices into cs: each section of
\* `sections` followed by its active children.
RECURSIVE Arrangement(_, _)
Arrangement(cs, sections) ==
    IF sections = <<>> THEN <<>>
    ELSE <<Head(sections)>> \o Ranked(cs, ActiveChildren(cs, Head(sections)))
         \o Arrangement(cs, Tail(sections))

\* The text of an arrangement: a section's rawLatex, "\n" and the rawLatex
\* of each child, "\n\n" after the last chunk of each section.
RECURSIVE ArrangementText(_, _)
ArrangementText(cs, arr) ==
    IF arr = <<>> THEN <<>>
    ELSE (IF cs[Head(arr)].type = "section" THEN <<>> ELSE <<"\n">>)
         \o cs[Head(arr)].rawLatex
         \o (IF Len(arr) = 1 \/ cs[arr[2]].type = "section" THEN <<"\n", "\n">> ELSE <<>>)
         \o ArrangementText(cs, Tail(arr))

\* `out`, a sequence of chunks of cs, is arranged as C2 says: active
\* chunks only; every active section, by ascending order (ties in
\* collection order); every active child of a section after that section
\* with nothing but children of the same section between them, the
\* children by ascending order.
SectionsThenChildren(cs, out) ==
    LET At(i) == CHOOSE p \in 1..Len(out) : out[p] = cs[i]
    IN  /\ \A p \in 1..Len(out) : out[p].isActive
        /\ \A i \in ActiveSections(cs) : \E p \in 1..Len(out) : out[p] = cs[i]
        /\ \A i, j \in ActiveSections(cs) : Before(cs, i, j) => At(i) < At(j)
        /\ \A i \in ActiveSections(cs) : \A j \in ActiveChildren(cs, i) :
              /\ \E q \in 1..Len(out) : out[q] = cs[j]
              /\ At(i) < At(j)
              /\ \A r \in (At(i) + 1)..(At(j) - 1) : out[r].parentId = cs[i].id
              /\ \A k \in ActiveChildren(cs, i) : Before(cs, j, k) => At(j) < At(k)

\* C2: the text the editor generates (Preview, Download) is the text of
\* active chunks only, the active sections by ascending order, each
\* followed at once by its active children and then by the next section.
C2_EditorSectionsThenChildren ==
    SectionsThenChildren(chunks, editorEmissionOrder(chunks))

\* The generateLatex of lib/latex-generator, which the editor does not
\* call, does arrange every document of the editor as C2 says: its text is
\* the preamble, the delimiter and the text of that arrangement.
LibSectionsThenChildren ==
    LET data == [preamble |-> preamble, activeChunks |-> chunks]
        arr  == Arrangement(chunks, Ranked(chunks, ActiveSections(chunks)))
        out  == EmissionOrder(data)
    IN  /\ out = [p \in 1..Len(arr) |-> chunks[arr[p]]]
        /\ SectionsThenChildren(chunks, out)
        /\ generateLatex(data) =
               preamble \o <<"\n", "\n", BeginDoc, "\n", "\n">>
               \o ArrangementText(chunks, arr) \o <<EndDoc>>

\* The ids of the chunks of cs with isActive = flag, in list order.
ListIds(cs, flag) ==
    LET r == Ranked(cs, {i \in Indices(cs) : cs[i].isActive = flag})
    IN  [p \in 1..Len(r) |-> cs[r[p]].id]

Position(ids, id) == CHOOSE p \in 1..Len(ids) : ids[p] = id
Without(ids, id)  == LET Other(x) == x # id IN SelectSeq(ids, Other)
ChunkOf(cs, id)   == cs[CHOOSE i \in Indices(cs) : cs[i].id = id]

\* The step is the drag of chunk a onto o.
IsDrag(a, o) == last' = "dragEnd" /\ chunks' = handleDragEnd(chunks, a, o)

\* C3: a drag of chunk A changes the order of no chunk whose isActive
\* differs from A's, and the id, isActive and rawLatex of no chunk.
C3_OtherListUntouched ==
    [][\A a \in ChunkIds(chunks), o \in ChunkIds(chunks) \cup {Null} :
          IsDrag(a, o) =>
              /\ Len(chunks') = Len(chunks)
              /\ \A i \in Indices(chunks) :
                    /\ chunks'[i].id = chunks[i].id
                    /\ chunks'[i].isActive = chunks[i].isActive
                    /\ chunks'[i].rawLatex = chunks[i].rawLatex
                    /\ chunks[i].isActive # ChunkOf(chunks, a).isActive
                           => chunks'[i].order = chunks[i].order]_vars

\* After a drag, an active and a standby chunk have the same order.
C3_Witness ==
    /\ last = "dragEnd"
    /\ nEdits >= 2
    /\ \E i, j \in Indices(chunks) :
          /\ chunks[i].isActive /\ ~chunks[j].isActive
          /\ chunks[i].order = chunks[j].order

\* C4: a drag of a onto o of the same list puts a where o was in the
\* order-sorted list and keeps the sequence of the others; a drag onto a
\* chunk of the other list changes nothing.
C4_MovedToTargetIndex ==
    [][\A a, o \in ChunkIds(chunks) :
          (a # o /\ IsDrag(a, o)) =>
              IF ChunkOf(chunks, a).isActive = ChunkOf(chunks, o).isActive
              THEN LET flag   == ChunkOf(chunks, a).isActive
                       before == ListIds(chunks, flag)
                       after  == ListIds(chunks', flag)
                   IN  /\ Len(after) = Len(before)
                       /\ after[Position(before, o)] = a
                       /\ Without(after, a) = Without(before, a)
              ELSE chunks' = chunks]_vars

\* The sample document after the drag of its first active chunk onto its
\* third: "2", "3", "1".
C4_Witness ==
    /\ last = "dragEnd"
    /\ Len(chunks) = 5
    /\ ListIds(chunks, TRUE) = <<"2", "3", "1">>

\* C5: no two chunks of the document have the same id.
C5_UniqueIds ==
    \A i, j \in Indices(chunks) : chunks[i].id = chunks[j].id => i = j

\* An upload of markup source has committed sections and an item.
C5_Witness ==
    /\ last = "uploadDone"
    /\ \E i, j, k \in Indices(chunks) :
          /\ chunks[i].id = "section-0"
          /\ chunks[j].id = "section-0-item-0"
          /\ chunks[k].id = "section-2"

\* Chunk c is chunk d but for its order and isActive.
SameChunk(c, d) ==
    /\ c.id = d.id /\ c.type = d.type /\ c.title = d.title
    /\ c.content = d.content /\ c.rawLatex = d.rawLatex /\ c.parentId = d.parentId

\* C6: the preamble and the chunks are always those of one document (the
\* sample document or one upload), and when an upload completes the
\* chunks are exactly the chunks of that upload.
C6_ImportAtomic ==
    /\ \E d \in Documents :
          /\ preamble = d.preamble
          /\ \A i \in Indices(chunks) :
                \E k \in Indices(d.chunks) : SameChunk(chunks[i], d.chunks[k])
    /\ last = "uploadDone" =>
          \E f \in {TexResume, PdfResume} :
              preamble = Imported[f].preamble /\ chunks = Imported[f].chunks

\* An upload has completed while another one is still suspended.
C6_Witness ==
    /\ last = "uploadDone"
    /\ inflight # {}
    /\ chunks # <<>>

\* C7: an upload that fails, or whose extension is neither pdf nor tex,
\* leaves the preamble and the chunks as they were, and runs no parser.
C7_FailedImportCommitsNothing ==
    [][last' \in {"uploadFailed", "uploadUnsupported"} =>
          /\ chunks' = chunks
          /\ preamble' = preamble
          /\ ~parserRan']_vars

\* An upload has failed in an edited document.
C7_Witness ==
    /\ last = "uploadFailed"
    /\ nEdits > 0
    /\ chunks # <<>>

\* C8: a toggle changes the isActive of the chunk of that id and nothing
\* else, and a second toggle of the same id gives back the collection.
C8_ToggleInvolution ==
    [][\A id \in ChunkIds(chunks) :
          (last' = "toggle" /\ chunks' = toggleChunkActive(chunks, id)) =>
              /\ Len(chunks') = Len(chunks)
              /\ \A i \in Indices(chunks) :
                    /\ SameChunk(chunks'[i], chunks[i])
                    /\ chunks'[i].order = chunks[i].order
                    /\ (chunks'[i].isActive # chunks[i].isActive) <=> (chunks[i].id = id)
              /\ toggleChunkActive(chunks', id) = chunks]_vars

\* Two toggles have brought a document back to what it was.
C8_Witness ==
    /\ last = "toggle"
    /\ nEdits = 2
    /\ \E d \in Documents : chunks = d.chunks

----------------------------------------------------------------------------
(* Properties of the heuristic segmenter (SpecHeuristic).                  *)

\* The substitution of one character, whatever stands beside it.
EscapeChar(t) ==
    IF t = "\\" THEN <<"\\textbackslash", "{", "}">>
    ELSE IF t \in {"&", "%", "$", "#", "_", "{", "}"} THEN <<"\\", t>>
    ELSE IF t = "~" THEN <<"\\textasciitilde", "{", "}">>
    ELSE IF t = "^" THEN <<"\\textasciicircum", "{", "}">>
    ELSE <<t>>

RECURSIVE EscapeEach(_)
EscapeEach(line) ==
    IF line = <<>> THEN <<>> ELSE EscapeChar(Head(line)) \o EscapeEach(Tail(line))

\* part stands in whole, lexeme beside lexeme.
Contains(whole, part) ==
    \E k \in 0..(Len(whole) - Len(part)) :
        SubSeq(whole, k + 1, k + Len(part)) = part

\* The text of a body line that is escaped: the line without its bullet.
Payload(line) ==
    IF line # <<>> /\ line[1] \in {"\\u2022", "-", "*"} THEN StripBullet(line) ELSE line

\* The rawLatex of every chunk holds, for each line of its content, the
\* character-by-character substitution of that line.
BodyLinesEscaped ==
    \A i \in 1..Len(parsed.activeChunks) :
        LET c == parsed.activeChunks[i]
            lines == SelectSeq(SplitLines(c.content), NonEmpty)
        IN  \A n \in 1..Len(lines) :
                Contains(c.rawLatex, <<" ">> \o EscapeEach(Payload(lines[n])) \o <<"\n">>)
                \/ Contains(c.rawLatex, <<"{">> \o EscapeEach(lines[n]) \o <<"}", "\n">>)
                \/ Contains(c.rawLatex, <<"\n">> \o EscapeEach(lines[n]) \o <<"\\\\", "\n">>)

\* The header of every chunk is the substitution of a header line of the
\* text.
HeaderLinesEscaped ==
    LET lines == TrimmedLines(source)
    IN  \A i \in 1..Len(parsed.activeChunks) :
            \E n \in 1..Len(lines) :
                /\ IsSectionHeader(lines[n])
                /\ Contains(parsed.activeChunks[i].rawLatex,
                            <<"\\section", "{">> \o EscapeEach(lines[n])
                                \o <<"}", "\n", "\n">>)

\* C11: what the segmenter puts in rawLatex for a line, body line or
\* header line, is the substitution of each of its characters on its own,
\* no substitution altered by another.
C11_EscapedCharByChar ==
    (stage # "text" /\ source \in EscapeTexts) =>
        BodyLinesEscaped /\ HeaderLinesEscaped

\* The indices of the header lines of `lines`, ascending.
HeaderIndices(lines) ==
    LET H == {n \in 1..Len(lines) : IsSectionHeader(lines[n])}
    IN  [i \in 1..Cardinality(H) |->
            CHOOSE n \in H : Cardinality({k \in H : k < n}) = i - 1]

\* The lines between the i-th header line and the next one, or the end.
LinesUnder(lines, i) ==
    LET hs   == HeaderIndices(lines)
        stop == IF i < Len(hs) THEN hs[i + 1] ELSE Len(lines) + 1
    IN  SubSeq(lines, hs[i] + 1, stop - 1)

\* C12: a text with h >= 1 header lines is segmented into h section
\* chunks, in header order, the content of the i-th being the lines
\* between the i-th header and the next joined by newlines, also when there
\* are none; no "Resume Content" chunk when there is a header.
C12_OneChunkPerHeader ==
    LET lines == TrimmedLines(source)
        hs    == HeaderIndices(lines)
        cs    == parsed.activeChunks
    IN  (stage # "text" /\ hs # <<>>) =>
            /\ Len(cs) = Len(hs)
            /\ \A i \in 1..Len(cs) :
                  /\ cs[i].content = JoinLines(LinesUnder(lines, i))
                  /\ cs[i].title = cleanTitle(lines[hs[i]])
                  /\ cs[i].title # <<"Resume", " ", "Content">>

----------------------------------------------------------------------------
(* Properties of an imported document.                                     *)

\* C13: in a document that was imported, after any drags, toggles and
\* deletes, two distinct chunks with the same isActive have different
\* orders.
C13_DistinctOrderInList ==
    preamble # InitialPreamble =>
        \A i, j \in Indices(chunks) :
            (i # j /\ chunks[i].isActive = chunks[j].isActive)
                => chunks[i].order # chunks[j].order

\* The places of lexeme t in text.
Places(text, t) == {k \in 1..Len(text) : text[k] = t}

\* text holds \begin{document} exactly once, before the text of the first
\* chunk of `first`, and \end{document} exactly once, as its last lexeme.
DelimitersOnce(text, first) ==
    /\ Cardinality(Places(text, BeginDoc)) = 1
    /\ Places(text, EndDoc) = {Len(text)}
    /\ first # <<>> =>
          \E k \in Places(text, BeginDoc) :
              Contains(SubSeq(text, k + 1, Len(text)), first[1].rawLatex)

\* C14: the text the editor generates from a document an upload has just
\* committed holds \begin{document} exactly once, before the first chunk,
\* and \end{document} exactly once, at its end.
C14_EditorDelimitersOnce ==
    last = "uploadDone" =>
        DelimitersOnce(editorGenerateLatex(preamble, chunks),
                       editorEmissionOrder(chunks))

\* The same of the generateLatex of lib/latex-generator.
LibDelimitersOnce ==
    last = "uploadDone" =>
        LET data == [preamble |-> preamble, activeChunks |-> chunks]
        IN  DelimitersOnce(generateLatex(data), EmissionOrder(data))

====
